---- MODULE Spec2Model ----
(***************************************************************************)
(* Model of gffVisguiPepDomFontStreamlit1.py: the GFF parser parse_gff,     *)
(* the track renderer plot_domains and the Streamlit script that wires     *)
(* them to the widgets and to st.session_state.domain_colors.              *)
(*                                                                         *)
(* Text is modelled character by character: a Python str is a sequence of  *)
(* one-character strings, so that strip, split, startswith and int are     *)
(* computed the way the interpreter computes them.                         *)
(***************************************************************************)
EXTENDS Integers, Sequences, FiniteSets, TLC

VARIABLES
    lines,          \* ParseSpec: the lines the uploaded text is made of
    ret,            \* ParseSpec: what parse_gff returned or raised (Pending before)
    plot_args,      \* the arguments of the call of plot_domains (Pending without one)
    plot_ret,       \* what that call produced (Pending without one)
    uploaded_file,  \* Spec: index of the uploaded file in AppFiles, 0 for None
    selected_proteins,  \* Spec: value of the protein multiselect
    selected_domains,   \* Spec: value of the domain multiselect
    shape_choice,       \* Spec: value of the shape selectbox
    domain_colors,      \* Spec: st.session_state.domain_colors (present: the key is set)
    last_event,         \* Spec: the interaction that triggered the latest rerun
    output              \* Spec: what the latest rerun rendered below the widgets

vars == <<lines, ret, plot_args, plot_ret, uploaded_file, selected_proteins,
          selected_domains, shape_choice, domain_colors, last_event, output>>

-----------------------------------------------------------------------------
(* Bounds of the model *)

\* longest uploaded text, in lines
MaxLines == 2
\* random_color draws from 0 .. NumColors-1 instead of 0 .. 0xFFFFFF
NumColors == 2
\* longest record list handed to plot_domains in PlotSpec
MaxRecs == 2

-----------------------------------------------------------------------------
(* Python str primitives *)

TAB == "\t"
LF == "\n"
CR == "\r"

\* str.isspace() characters of the model's alphabet
Whitespace == {" ", TAB, LF, CR}

\* line boundaries of str.splitlines() in the model's alphabet
LineBreaks == {LF, CR}

Digits == {"0", "1", "2", "3", "4", "5", "6", "7", "8", "9"}

DigitVal(c) ==
    CASE c = "0" -> 0 [] c = "1" -> 1 [] c = "2" -> 2 [] c = "3" -> 3
      [] c = "4" -> 4 [] c = "5" -> 5 [] c = "6" -> 6 [] c = "7" -> 7
      [] c = "8" -> 8 [] c = "9" -> 9

\* str.startswith(prefix)
startswith(s, prefix) ==
    /\ Len(s) >= Len(prefix)
    /\ SubSeq(s, 1, Len(prefix)) = prefix

RECURSIVE lstrip(_)
lstrip(s) ==
    IF s # <<>> /\ Head(s) \in Whitespace THEN lstrip(Tail(s)) ELSE s

RECURSIVE rstrip(_)
rstrip(s) ==
    IF s # <<>> /\ s[Len(s)] \in Whitespace
    THEN rstrip(SubSeq(s, 1, Len(s) - 1))
    ELSE s

\* str.strip(): leading and trailing whitespace removed, tabs included
strip(s) == rstrip(lstrip(s))

\* the k-th smallest element of a set of positions
Nth(positions, k) ==
    CHOOSE i \in positions : Cardinality({j \in positions : j < i}) = k - 1

\* str.split(sep) for a one-character sep: one piece more than there are
\* separators, so always at least one piece
split(s, sep) ==
    LET seps == {i \in 1..Len(s) : s[i] = sep}
        n == Cardinality(seps)
    IN  [k \in 1..(n + 1) |->
            SubSeq(s,
                   IF k = 1 THEN 1 ELSE Nth(seps, k - 1) + 1,
                   IF k = n + 1 THEN Len(s) ELSE Nth(seps, k) - 1)]

\* str.splitlines(): "\r\n" is one boundary; no empty last line after a final break
splitlines(s) ==
    LET breaks == {i \in 1..Len(s) :
                      /\ s[i] \in LineBreaks
                      /\ ~(s[i] = LF /\ i > 1 /\ s[i - 1] = CR)}
        n == Cardinality(breaks)
        after(b) == IF s[b] = CR /\ b < Len(s) /\ s[b + 1] = LF THEN b + 2 ELSE b + 1
        pieces == [k \in 1..(n + 1) |->
                      SubSeq(s,
                             IF k = 1 THEN 1 ELSE after(Nth(breaks, k - 1)),
                             IF k = n + 1 THEN Len(s) ELSE Nth(breaks, k) - 1)]
    IN  IF pieces[n + 1] = <<>> THEN SubSeq(pieces, 1, n) ELSE pieces

\* '=' in item
Contains(s, c) == \E i \in 1..Len(s) : s[i] = c

\* The digit part of an int literal: digits, single underscores only between digits
IsDigitRun(s) ==
    /\ s # <<>>
    /\ \A i \in 1..Len(s) : s[i] \in Digits \cup {"_"}
    /\ s[1] # "_" /\ s[Len(s)] # "_"
    /\ \A i \in 1..(Len(s) - 1) : ~(s[i] = "_" /\ s[i + 1] = "_")

RECURSIVE DigitRunVal(_, _, _)
DigitRunVal(s, i, acc) ==
    IF i > Len(s) THEN acc
    ELSE IF s[i] = "_" THEN DigitRunVal(s, i + 1, acc)
    ELSE DigitRunVal(s, i + 1, 10 * acc + DigitVal(s[i]))

Unsigned(s) == IF s # <<>> /\ Head(s) \in {"+", "-"} THEN Tail(s) ELSE s

\* whether int(s) returns (otherwise it raises ValueError)
IsIntLiteral(s) == IsDigitRun(Unsigned(strip(s)))

\* int(s) for a str s
int(s) ==
    LET t == strip(s)
        v == DigitRunVal(Unsigned(t), 1, 0)
    IN  IF t # <<>> /\ Head(t) = "-" THEN 0 - v ELSE v

-----------------------------------------------------------------------------
(* parse_gff *)

Name == <<"N", "a", "m", "e">>
Unknown == <<"U", "n", "k", "n", "o", "w", "n">>
polypeptide == <<"p", "o", "l", "y", "p", "e", "p", "t", "i", "d", "e">>
protein_match == <<"p", "r", "o", "t", "e", "i", "n", "_", "m", "a", "t", "c", "h">>

\* an exception leaving parse_gff: nothing is returned to the caller
ValueError == [exc |-> "ValueError"]

\* content.splitlines() sees the uploaded text; the text of a list of lines
RECURSIVE JoinLines(_)
JoinLines(ls) ==
    IF ls = <<>> THEN <<>>
    ELSE IF Len(ls) = 1 THEN ls[1]
    ELSE ls[1] \o <<LF>> \o JoinLines(Tail(ls))

\* line.startswith("##")
IsComment(line) == startswith(line, <<"#", "#">>)

\* fields = line.strip().split("\t")
Fields(line) == split(strip(line), TAB)

\* len(fields) < 9
TooShort(fields) == Len(fields) < 9

\* dict(pairs): a later pair overrides an earlier one with the same key
RECURSIVE DictOf(_, _, _)
DictOf(pairs, i, d) ==
    IF i > Len(pairs) THEN d
    ELSE LET k == pairs[i][1]
             v == pairs[i][2]
         IN  DictOf(pairs, i + 1,
                    [x \in (DOMAIN d) \cup {k} |-> IF x = k THEN v ELSE d[x]])

\* item.split('=') for item in fields[8].split(';') if '=' in item
AttributePairs(text) ==
    LET items == SelectSeq(split(text, ";"), LAMBDA item : Contains(item, "="))
    IN  [i \in 1..Len(items) |-> split(items[i], "=")]

\* dict() raises ValueError on an element of the update sequence that is not a pair
DictRaises(pairs) == \E i \in 1..Len(pairs) : Len(pairs[i]) # 2

\* attributes = dict(...) when it does not raise
ParseAttributes(text) == DictOf(AttributePairs(text), 1, <<>>)

\* variant: attributes.get("Name"), the default forgotten
DomainNameWithoutDefault(attributes) ==
    IF Name \in DOMAIN attributes THEN attributes[Name] ELSE <<>>

\* attributes.get("Name", "Unknown")
DomainName(attributes) ==
    IF Name \in DOMAIN attributes THEN attributes[Name] ELSE Unknown

\* variant: start and end read from each other's column
EntrySwapped(fields, attributes) ==
    <<fields[1], int(fields[5]), int(fields[4]), DomainName(attributes)>>

\* (protein_name, start, end, domain_name)
Entry(fields, attributes) ==
    <<fields[1], int(fields[4]), int(fields[5]), DomainName(attributes)>>

\* variant: a line whose start or end is not a number is skipped like a short one
ParseLineSkippingBadNumbers(line, acc) ==
    IF IsComment(line) THEN acc
    ELSE LET fields == Fields(line) IN
    IF TooShort(fields) THEN acc
    ELSE IF ~IsIntLiteral(fields[4]) \/ ~IsIntLiteral(fields[5]) THEN acc
    ELSE IF DictRaises(AttributePairs(fields[9])) THEN ValueError
    ELSE LET attributes == ParseAttributes(fields[9]) IN
         [domain_data |->
              IF fields[3] = protein_match
              THEN Append(acc.domain_data, Entry(fields, attributes))
              ELSE acc.domain_data,
          protein_names |->
              IF fields[3] = polypeptide
              THEN acc.protein_names \cup {fields[1]}
              ELSE acc.protein_names]

\* one iteration of the loop over content.splitlines(): the accumulators after
\* the line, or the exception that leaves the function
ParseLine(line, acc) ==
    IF IsComment(line) THEN acc
    ELSE LET fields == Fields(line) IN
    IF TooShort(fields) THEN acc
    ELSE IF ~IsIntLiteral(fields[4]) \/ ~IsIntLiteral(fields[5]) THEN ValueError
    ELSE IF DictRaises(AttributePairs(fields[9])) THEN ValueError
    ELSE LET attributes == ParseAttributes(fields[9]) IN
         [domain_data |->
              IF fields[3] = protein_match
              THEN Append(acc.domain_data, Entry(fields, attributes))
              ELSE acc.domain_data,
          protein_names |->
              IF fields[3] = polypeptide
              THEN acc.protein_names \cup {fields[1]}
              ELSE acc.protein_names]

RECURSIVE ParseLoop(_, _, _)
ParseLoop(ls, i, acc) ==
    IF i > Len(ls) THEN acc
    ELSE LET next == ParseLine(ls[i], acc)
         IN  IF next = ValueError THEN ValueError ELSE ParseLoop(ls, i + 1, next)

\* parse_gff(uploaded_file), content being the decoded text of the file
parse_gff(content) ==
    ParseLoop(splitlines(content), 1, [domain_data |-> <<>>, protein_names |-> {}])

-----------------------------------------------------------------------------
(* ParseSpec: parse_gff applied to every text of at most MaxLines lines      *)
(* drawn from LinePool                                                      *)

\* a line from its columns
RECURSIVE JoinTab(_)
JoinTab(cols) ==
    IF Len(cols) = 1 THEN cols[1]
    ELSE cols[1] \o <<TAB>> \o JoinTab(Tail(cols))

NameIs(v) == Name \o <<"=">> \o v

\* columns 5..7 (score, strand, phase) of an ordinary feature line
Dots == <<<<".">>, <<".">>, <<".">>>>

FeatureLine(id, type, start, end, attrs) ==
    JoinTab(<<id, <<"s">>, type, start, end>> \o Dots \o <<attrs>>)

LinePool ==
    { \* comments: a plain one, and one that would raise if it were read
      <<"#", "#", "c">>,
      <<"#", "#">> \o FeatureLine(<<"P">>, protein_match, <<"x">>, <<"5">>, NameIs(<<"A">>)),
      \* blank
      <<" ">>,
      \* 8 columns, the start not a number
      JoinTab(<<<<"P">>, <<"s">>, protein_match, <<"x">>, <<"5">>, <<".">>, <<".">>, <<".">>>>),
      \* polypeptides
      FeatureLine(<<"P">>, polypeptide, <<"1">>, <<"9">>, <<"I", "D", "=", "1">>),
      FeatureLine(<<"Q">>, polypeptide, <<"1">>, <<"9">>, <<".">>),
      \* domain matches
      FeatureLine(<<"P">>, protein_match, <<"1">>, <<"5">>, NameIs(<<"A">>)),
      FeatureLine(<<"P">>, protein_match, <<"3">>, <<"1", "2">>, NameIs(<<"B">>) \o <<";", "x">>),
      FeatureLine(<<"Q">>, protein_match, <<"2">>, <<"4">>, <<"I", "D", "=", "1">>),
      FeatureLine(<<"Q">>, protein_match, <<"2">>, <<"4">>, NameIs(<<"A">>) \o <<";">> \o NameIs(<<"B">>)),
      \* a tenth column
      FeatureLine(<<"Q">>, protein_match, <<"7">>, <<"8">>, NameIs(<<"B">>)) \o <<TAB, "z">>,
      \* another feature type
      FeatureLine(<<"P">>, <<"g">>, <<"1">>, <<"9">>, NameIs(<<"A">>)),
      \* start or end not a number
      FeatureLine(<<"P">>, protein_match, <<"x">>, <<"5">>, NameIs(<<"A">>)),
      FeatureLine(<<"Q">>, polypeptide, <<"1">>, <<"1", ".", "5">>, <<".">>),
      \* end before start, negative start
      FeatureLine(<<"P">>, protein_match, <<"5">>, <<"1">>, NameIs(<<"A">>)),
      FeatureLine(<<"Q">>, protein_match, <<"-", "2">>, <<"3">>, NameIs(<<"B">>)),
      \* an attribute with two '='
      FeatureLine(<<"P">>, protein_match, <<"1">>, <<"5">>, NameIs(<<"A", "=", "B">>)),
      \* empty attribute column, on a domain match and on a polypeptide
      FeatureLine(<<"P">>, protein_match, <<"1">>, <<"5">>, <<>>),
      FeatureLine(<<"Q">>, polypeptide, <<"1">>, <<"9">>, <<>>),
      \* empty first column, ten columns
      FeatureLine(<<>>, protein_match, <<"1">>, <<"2">>, NameIs(<<"A">>)) \o <<TAB, "z">>,
      \* numbers int() accepts: blanks around, a sign, an underscore
      FeatureLine(<<"P">>, protein_match, <<" ", "7", " ">>, <<"+", "1", "_", "0">>, NameIs(<<"B">>)),
      \* an empty value, a key that is not quite Name, an empty key
      FeatureLine(<<"Q">>, protein_match, <<"2">>, <<"4">>, NameIs(<<>>)),
      FeatureLine(<<"P">>, protein_match, <<"1">>, <<"5">>,
                  <<" ">> \o NameIs(<<"A">>) \o <<";", "=", "x">>),
      \* surrounding blanks
      <<" ">> \o FeatureLine(<<"P">>, protein_match, <<"1">>, <<"5">>, NameIs(<<"A">>)) \o <<" ">>
    }

Pending == [pending |-> TRUE]

IdleApp ==
    /\ uploaded_file = 0
    /\ selected_proteins = <<>>
    /\ selected_domains = <<>>
    /\ shape_choice = "Rectangle"
    /\ domain_colors = [present |-> FALSE, map |-> <<>>]
    /\ last_event = "none"
    /\ output = [kind |-> "none"]

IdlePlot ==
    /\ plot_args = Pending
    /\ plot_ret = Pending

IdleParse ==
    /\ lines = <<>>
    /\ ret = Pending

appVars == <<uploaded_file, selected_proteins, selected_domains, shape_choice,
             domain_colors, last_event, output>>
plotVars == <<plot_args, plot_ret>>
parseVars == <<lines, ret>>

ParseInit == IdleParse /\ IdlePlot /\ IdleApp

\* one more line of the file being written
AddLine ==
    /\ ret = Pending
    /\ Len(lines) < MaxLines
    /\ \E l \in LinePool : lines' = Append(lines, l)
    /\ UNCHANGED <<ret, plotVars, appVars>>

\* domain_data, protein_names = parse_gff(uploaded_file)
CallParse ==
    /\ ret = Pending
    /\ ret' = parse_gff(JoinLines(lines))
    /\ UNCHANGED <<lines, plotVars, appVars>>

ParseNext == AddLine \/ CallParse

ParseSpec == ParseInit /\ [][ParseNext]_vars

-----------------------------------------------------------------------------
(* Properties of parse_gff, stated on the lines of the text and on what was  *)
(* returned                                                                  *)

\* the tab-separated fields of a line as written
RawFields(line) == split(line, TAB)

\* the value of the attribute key "Name" in a column of ';'-separated key=value
\* entries: that of the last entry "Name=...", "Unknown" without one
NameValue(text) ==
    LET items == split(text, ";")
        named == {i \in 1..Len(items) : startswith(items[i], NameIs(<<>>))}
    IN  IF named = {} THEN Unknown
        ELSE LET m == CHOOSE i \in named : \A j \in named : j <= i
             IN  SubSeq(items[m], Len(Name) + 2, Len(items[m]))

\* 9 or more tab-separated fields, integer start and end
WellFormedLine(line) ==
    LET f == RawFields(line)
    IN  /\ Len(f) >= 9
        /\ IsIntLiteral(f[4])
        /\ IsIntLiteral(f[5])

Returned == ret # Pending /\ ret # ValueError

\* the lines parse_gff reads past its two skips, in order
ReadLines == SelectSeq(lines, LAMBDA l : ~IsComment(l) /\ ~TooShort(Fields(l)))

\* the domain-match lines among them
MatchLines == SelectSeq(ReadLines, LAMBDA l : Fields(l)[3] = protein_match)

\* C1 (as claimed): on a text of comment lines and well-formed feature lines,
\* parse_gff returns one record per protein_match line, in line order, equal to
\* (field 0, int(field 3), int(field 4), domain name), and the set of the
\* field-0 values of the polypeptide lines.
C1_OneRecordPerMatchLine ==
    (/\ ret # Pending
     /\ \A i \in 1..Len(lines) : IsComment(lines[i]) \/ WellFormedLine(lines[i]))
    => LET feature == SelectSeq(lines, LAMBDA l : ~IsComment(l))
           pm == SelectSeq(feature, LAMBDA l : RawFields(l)[3] = protein_match)
           pp == SelectSeq(feature, LAMBDA l : RawFields(l)[3] = polypeptide)
       IN  /\ ret # ValueError
           /\ ret.domain_data =
                 [i \in 1..Len(pm) |->
                     <<RawFields(pm[i])[1], int(RawFields(pm[i])[4]),
                       int(RawFields(pm[i])[5]), NameValue(RawFields(pm[i])[9])>>]
           /\ ret.protein_names = {RawFields(pp[i])[1] : i \in 1..Len(pp)}

\* C5 (as claimed): a line with a non-integer start or end field makes parse_gff
\* fail for the whole file.
C5_AnyBadNumberFails ==
    (/\ ret # Pending
     /\ \E i \in 1..Len(lines) :
           LET f == RawFields(lines[i])
           IN  \/ Len(f) >= 4 /\ ~IsIntLiteral(f[4])
               \/ Len(f) >= 5 /\ ~IsIntLiteral(f[5]))
    => ret = ValueError

\* C5 (amended): a line that is not a comment and has 9 or more fields once
\* stripped, with a non-integer in position 3 or 4 of those fields, makes
\* parse_gff raise: nothing of the other lines is returned.
C5_ReadBadNumberFails ==
    (/\ ret # Pending
     /\ \E i \in 1..Len(ReadLines) :
           \/ ~IsIntLiteral(Fields(ReadLines[i])[4])
           \/ ~IsIntLiteral(Fields(ReadLines[i])[5]))
    => ret = ValueError

\* C5 witness: the file failed on a bad number although another of its lines
\* alone gives a record.
C5_Witness ==
    /\ ret = ValueError
    /\ \E i \in 1..Len(ReadLines) : ~IsIntLiteral(Fields(ReadLines[i])[4])
    /\ \E i \in 1..Len(lines) :
          LET alone == parse_gff(lines[i])
          IN  alone # ValueError /\ alone.domain_data # <<>>

\* C6 (as claimed): a non-comment line is skipped as malformed exactly when
\* splitting it on tabs yields fewer than 9 fields.
C6_SkippedIffFewerThanNineFields ==
    ret # Pending =>
        \A i \in 1..Len(lines) :
            ~IsComment(lines[i]) =>
                (TooShort(Fields(lines[i])) <=> Len(RawFields(lines[i])) < 9)

\* C7 (as claimed): every returned record has start >= 0 and end >= start.
C7_StartEndOrdered ==
    Returned =>
        \A i \in 1..Len(ret.domain_data) :
            ret.domain_data[i][2] >= 0 /\ ret.domain_data[i][3] >= ret.domain_data[i][2]

\* whether the numbers written on every domain-match line that is read are
\* ordered 0 <= start <= end
OrderedInput ==
    \A i \in 1..Len(MatchLines) :
        LET f == Fields(MatchLines[i])
        IN  IsIntLiteral(f[4]) /\ IsIntLiteral(f[5])
            /\ 0 <= int(f[4]) /\ int(f[4]) <= int(f[5])

\* C7 (amended): the records carry the line's numbers unchecked, so every
\* record has start >= 0 and end >= start when every domain-match line read
\* has them so.
C7_OrderedWhenInputOrdered ==
    (Returned /\ OrderedInput) =>
        \A i \in 1..Len(ret.domain_data) :
            ret.domain_data[i][2] >= 0 /\ ret.domain_data[i][3] >= ret.domain_data[i][2]

\* C7 witness: a record with start < end was returned from ordered input.
C7_Witness ==
    /\ Returned
    /\ OrderedInput
    /\ \E i \in 1..Len(ret.domain_data) : ret.domain_data[i][2] < ret.domain_data[i][3]

\* C8: every protein_match line read gives a record whose domain name is the
\* value of "Name" in its attribute column, "Unknown" without such a key.
C8_DomainNameIsNameAttribute ==
    Returned =>
        /\ Len(ret.domain_data) = Len(MatchLines)
        /\ \A i \in 1..Len(MatchLines) :
              ret.domain_data[i][4] = NameValue(Fields(MatchLines[i])[9])

\* C8 witness: one record named by its attribute and one named "Unknown".
C8_Witness ==
    /\ Returned
    /\ \E i \in 1..Len(ret.domain_data) : ret.domain_data[i][4] = Unknown
    /\ \E i \in 1..Len(ret.domain_data) : ret.domain_data[i][4] = <<"B">>

\* C9 (as claimed): no attribute column makes parsing fail: a file whose lines
\* read all have integer start and end is parsed.
C9_AttributesNeverFail ==
    (/\ ret # Pending
     /\ \A i \in 1..Len(ReadLines) :
           /\ IsIntLiteral(Fields(ReadLines[i])[4])
           /\ IsIntLiteral(Fields(ReadLines[i])[5]))
    => ret # ValueError

-----------------------------------------------------------------------------
(* random_color and plot_domains.  Lengths on the plot are in hundredths of *)
(* a plot unit, so that 0.4, 1.0 and (start + end) / 2 stay integers.        *)

HexDigit(n) ==
    CASE n = 0 -> "0" [] n = 1 -> "1" [] n = 2 -> "2" [] n = 3 -> "3"
      [] n = 4 -> "4" [] n = 5 -> "5" [] n = 6 -> "6" [] n = 7 -> "7"
      [] n = 8 -> "8" [] n = 9 -> "9" [] n = 10 -> "a" [] n = 11 -> "b"
      [] n = 12 -> "c" [] n = 13 -> "d" [] n = 14 -> "e" [] n = 15 -> "f"

\* "#{:06x}".format(n), n being what random.randint(0, 0xFFFFFF) drew
random_color(n) ==
    <<"#">> \o [i \in 1..6 |-> HexDigit((n \div (16 ^ (6 - i))) % 16)]

\* the fallback of domain_colors.get(row["Domain"], "#1f77b4")
DefaultBlue == <<"#", "1", "f", "7", "7", "b", "4">>

\* protein_height = 0.4
protein_height == 40
\* protein_gap = 1.0
protein_gap == 100
\* alpha_value = 0.6
alpha_value == 60
\* one plot unit
Unit == 100

Range(seq) == {seq[i] : i \in 1..Len(seq)}

KeyError == [exc |-> "KeyError"]

\* variant: the records are filtered by protein only
filtered_by_protein(data, proteins, domains) ==
    SelectSeq(data, LAMBDA entry : entry[1] \in Range(proteins))

\* entry[0] in selected_proteins and entry[3] in selected_domains
filtered_data(data, proteins, domains) ==
    SelectSeq(data, LAMBDA entry : entry[1] \in Range(proteins) /\ entry[4] \in Range(domains))

\* variant: the gap between lanes forgotten
y_position_without_gap(i) == i * protein_height

\* y_position = i * (protein_height + protein_gap), i counted from 0
y_position(i) == i * (protein_height + protein_gap)

\* ax.get_legend_handles_labels()[1]: the labels of the patches added so far,
\* without the empty ones and those starting with an underscore
LegendLabels(patches) ==
    {patches[j].label : j \in {k \in 1..Len(patches) :
        patches[k].label # <<>> /\ ~startswith(patches[k].label, <<"_">>)}}

\* the body of the loop over protein_rows: ax.add_patch(...) of the shape chosen;
\* the if/elif chain has no else
AddPatch(patches, row, y, shape, colors) ==
    LET width == (row[3] - row[2]) * Unit
        domain_color == IF row[4] \in DOMAIN colors THEN colors[row[4]] ELSE DefaultBlue
        label == IF row[4] \notin LegendLabels(patches) THEN row[4] ELSE <<>>
    IN  IF shape = "Rectangle"
        THEN Append(patches,
                 [patch |-> "Rectangle", xy |-> <<row[2] * Unit, y>>,
                  width |-> width, height |-> protein_height,
                  color |-> domain_color, alpha |-> alpha_value, label |-> label])
        ELSE IF shape = "Rounded Rectangle"
        THEN Append(patches,
                 [patch |-> "FancyBboxPatch", xy |-> <<row[2] * Unit, y>>,
                  width |-> width, height |-> protein_height,
                  boxstyle |-> [style |-> "round", pad |-> 2, rounding_size |-> 15],
                  color |-> domain_color, alpha |-> alpha_value, label |-> label])
        ELSE IF shape = "Oval"
        THEN Append(patches,
                 [patch |-> "Ellipse",
                  xy |-> <<((row[2] + row[3]) * Unit) \div 2, y + protein_height \div 2>>,
                  width |-> width, height |-> protein_height,
                  color |-> domain_color, alpha |-> alpha_value, label |-> label])
        ELSE patches

\* for _, row in protein_rows.iterrows()
RECURSIVE AddRows(_, _, _, _, _, _)
AddRows(patches, rows, j, y, shape, colors) ==
    IF j > Len(rows) THEN patches
    ELSE AddRows(AddPatch(patches, rows[j], y, shape, colors), rows, j + 1, y, shape, colors)

\* for i, protein in enumerate(selected_proteins)
RECURSIVE AddLanes(_, _, _, _, _, _)
AddLanes(patches, df, proteins, i, shape, colors) ==
    IF i > Len(proteins) THEN patches
    ELSE LET protein_rows == SelectSeq(df, LAMBDA row : row[1] = proteins[i])
         IN  AddLanes(AddRows(patches, protein_rows, 1, y_position(i - 1), shape, colors),
                      df, proteins, i + 1, shape, colors)

MaxOf(S) == CHOOSE m \in S : \A x \in S : x <= m

\* plot_domains(domain_data, selected_proteins, selected_domains, shape_choice,
\* domain_colors): st.info and no figure, the figure handed to st.pyplot, or
\* the KeyError of domain_colors[domain] while the legend is built
plot_domains(data, proteins, domains, shape, colors) ==
    LET df == filtered_data(data, proteins, domains)
    IN  IF df = <<>> THEN [kind |-> "info"]
        ELSE IF \E d \in Range(domains) : d \notin DOMAIN colors THEN KeyError
        ELSE [kind |-> "figure",
              figsize |-> <<10 * Unit, Len(proteins) * 150>>,
              patches |-> AddLanes(<<>>, df, proteins, 1, shape, colors),
              xlim |-> <<0, (MaxOf({df[k][3] : k \in 1..Len(df)}) + 10) * Unit>>,
              ylim |-> <<0 - protein_gap, Len(proteins) * (protein_height + protein_gap)>>,
              yticks |-> [i \in 1..Len(proteins) |->
                             (i - 1) * (protein_height + protein_gap) + protein_height \div 2],
              yticklabels |-> proteins,
              handles |-> [k \in 1..Len(domains) |->
                              [color |-> colors[domains[k]], label |-> domains[k],
                               alpha |-> alpha_value]]]

-----------------------------------------------------------------------------
(* PlotSpec: plot_domains applied to every argument list drawn from the     *)
(* sets below                                                               *)

PlotProteins == {<<"P">>, <<"Q">>}
PlotDomains == {<<"A">>, <<"B">>}

\* the records the argument lists are made of
RecordPool ==
    {<<p, se[1], se[2], d>> :
        p \in PlotProteins, se \in {<<1, 5>>, <<3, 12>>, <<5, 1>>}, d \in PlotDomains}

\* lists without repetition, as a multiselect returns them
DistinctSeqs(S) ==
    UNION {{q \in [1..n -> S] : \A i, j \in 1..n : i # j => q[i] # q[j]} :
              n \in 0..Cardinality(S)}

SeqsUpTo(S, n) == UNION {[1..k -> S] : k \in 0..n}

ShapeChoices == {"Rectangle", "Rounded Rectangle", "Oval"}

PlotColors ==
    [d \in PlotDomains |-> IF d = <<"A">> THEN random_color(0) ELSE random_color(1)]

PlotInit ==
    /\ plot_args \in [domain_data : SeqsUpTo(RecordPool, MaxRecs),
                      selected_proteins : DistinctSeqs(PlotProteins),
                      selected_domains : DistinctSeqs(PlotDomains),
                      shape_choice : ShapeChoices,
                      domain_colors : {PlotColors}]
    /\ plot_ret = Pending
    /\ IdleParse
    /\ IdleApp

CallPlot ==
    /\ plot_ret = Pending
    /\ plot_ret' = plot_domains(plot_args.domain_data, plot_args.selected_proteins,
                                plot_args.selected_domains, plot_args.shape_choice,
                                plot_args.domain_colors)
    /\ UNCHANGED <<plot_args, parseVars, appVars>>

PlotNext == CallPlot

PlotSpec == PlotInit /\ [][PlotNext]_vars

-----------------------------------------------------------------------------
(* Properties of plot_domains, stated on the arguments of the call and on   *)
(* what it produced                                                         *)

\* the positions of the records whose protein and domain are both selected
Matching(args) ==
    {i \in 1..Len(args.domain_data) :
        /\ args.domain_data[i][1] \in Range(args.selected_proteins)
        /\ args.domain_data[i][4] \in Range(args.selected_domains)}

Drew(result) == result # Pending /\ result # KeyError /\ result.kind = "figure"

\* C4: without a matching record plot_domains produces no figure, only the
\* message; otherwise the figure holds exactly one shape per matching record.
C4_OneShapePerMatchingRecord ==
    plot_ret # Pending =>
        IF Matching(plot_args) = {}
        THEN plot_ret = [kind |-> "info"]
        ELSE /\ Drew(plot_ret)
             /\ Len(plot_ret.patches) = Cardinality(Matching(plot_args))

\* C4 witness: a figure of one shape drawn from a list of two records, one of
\* them left out by the selection.
C4_Witness ==
    /\ Drew(plot_ret)
    /\ Len(plot_ret.patches) = 1
    /\ Len(plot_args.domain_data) = 2

\* the lane index (from 0) of a selected protein: its position in the list
LaneOf(protein, proteins) == (CHOOSE i \in 1..Len(proteins) : proteins[i] = protein) - 1

\* bottom edge, left end and right end of a shape
Extent(p) ==
    IF p.patch = "Ellipse"
    THEN <<p.xy[2] - p.height \div 2, p.xy[1] - p.width \div 2, p.xy[1] + p.width \div 2>>
    ELSE <<p.xy[2], p.xy[1], p.xy[1] + p.width>>

\* where the claim puts the shape of a record
ExpectedExtent(entry, proteins) ==
    <<LaneOf(entry[1], proteins) * (protein_height + protein_gap),
      entry[2] * Unit, entry[3] * Unit>>

-----------------------------------------------------------------------------
(* Spec: the Streamlit script.  Every interaction with a widget reruns the  *)
(* script from its first line with the widgets' values; st.session_state    *)
(* lasts for the session.  A widget that a rerun does not reach loses its    *)
(* value, and so does a multiselect whose options changed.                  *)

\* the texts the user may upload
AppFiles ==
    << \* two proteins, three domain names (the third line has no Name)
       << FeatureLine(<<"P">>, polypeptide, <<"1">>, <<"9">>, <<".">>),
          FeatureLine(<<"Q">>, polypeptide, <<"1">>, <<"9">>, <<".">>),
          FeatureLine(<<"P">>, protein_match, <<"1">>, <<"5">>, NameIs(<<"A">>)),
          FeatureLine(<<"Q">>, protein_match, <<"2">>, <<"4">>, <<"I", "D", "=", "1">>),
          FeatureLine(<<"P">>, protein_match, <<"3">>, <<"1", "2">>, NameIs(<<"B">>)) >>,
       \* one protein, a domain on another one
       << <<"#", "#", "c">>,
          FeatureLine(<<"P">>, polypeptide, <<"1">>, <<"9">>, <<".">>),
          FeatureLine(<<"Q">>, protein_match, <<"2">>, <<"4">>, NameIs(<<"A">>)),
          FeatureLine(<<"P">>, protein_match, <<"3">>, <<"1", "2">>, NameIs(<<"B">>)) >>,
       \* a start that is not a number
       << FeatureLine(<<"P">>, polypeptide, <<"x">>, <<"9">>, <<".">>) >> >>

\* parse_gff(uploaded_file) for each of them
ParsedFiles == [f \in 1..Len(AppFiles) |-> parse_gff(JoinLines(AppFiles[f]))]

Readable(f) == f # 0 /\ ParsedFiles[f] # ValueError

\* options=list(protein_names)
ProteinOptions(f) == IF Readable(f) THEN ParsedFiles[f].protein_names ELSE {}

\* options=list(set(entry[3] for entry in domain_data))
DomainOptions(f) ==
    IF Readable(f)
    THEN {ParsedFiles[f].domain_data[i][4] : i \in 1..Len(ParsedFiles[f].domain_data)}
    ELSE {}

\* what the user may pick in a color picker
PickerColors == {random_color(n) : n \in 0..(NumColors - 1)}

NoPick == [picked |-> FALSE, domain |-> <<>>, color |-> <<>>]

\* st.color_picker(label, value): the color just picked in this picker, else
\* the value passed (the picker shows it, and nothing else changed it)
color_picker(domain, value, pick) ==
    IF pick.picked /\ pick.domain = domain THEN pick.color ELSE value

\* the selected domains without an entry: those random_color() is called for
Uncolored(colors, domains) == Range(domains) \ DOMAIN colors.map

\* variant: the mapping is replaced, not extended, when a selected domain has no entry:
\* it then holds the newly colored domains only
SessionColorsReplaced(colors, domains, rnd, pick) ==
    IF Uncolored(colors, domains) # {}
    THEN [present |-> TRUE,
          map |-> [d \in Uncolored(colors, domains) |->
                      color_picker(d, random_color(rnd[d]), pick)]]
    ELSE [present |-> TRUE,
          map |-> [d \in DOMAIN colors.map |->
                      IF d \in Range(domains) THEN color_picker(d, colors.map[d], pick)
                      ELSE colors.map[d]]]

\* variant: colors are stored and picked only for the domains that have an entry
SessionColorsFirstSelectionOnly(colors, domains, rnd, pick) ==
    LET stored == IF ~colors.present
                  THEN [d \in Range(domains) |-> random_color(rnd[d])]
                  ELSE colors.map
    IN  [present |-> TRUE,
         map |-> [d \in DOMAIN stored |->
                     IF d \in Range(domains) THEN color_picker(d, stored[d], pick)
                     ELSE stored[d]]]

\* st.session_state.domain_colors after the three steps of a rerun: the
\* initialisation when the key is not set, a random color for every selected
\* domain without an entry, and the value of each selected domain's picker
SessionColors(colors, domains, rnd, pick) ==
    LET initialised == IF ~colors.present
                       THEN [d \in Range(domains) |-> random_color(rnd[d])]
                       ELSE colors.map
        ensured == [d \in (DOMAIN initialised) \cup Range(domains) |->
                       IF d \in DOMAIN initialised THEN initialised[d]
                       ELSE random_color(rnd[d])]
    IN  [present |-> TRUE,
         map |-> [d \in DOMAIN ensured |->
                     IF d \in Range(domains) THEN color_picker(d, ensured[d], pick)
                     ELSE ensured[d]]]

\* the value of a multiselect: what it holds, or nothing when its options are
\* not those of the previous run (a new widget, with the empty default)
MultiselectValue(options, previous_options, held) ==
    IF options = previous_options THEN held ELSE <<>>

\* if st.button("Visualize Selected Proteins"): plot_domains(...)
Visualize(clicked) ==
    IF clicked
    THEN /\ plot_args' = [domain_data |-> ParsedFiles[uploaded_file'].domain_data,
                          selected_proteins |-> selected_proteins',
                          selected_domains |-> selected_domains',
                          shape_choice |-> shape_choice',
                          domain_colors |-> domain_colors'.map]
         /\ plot_ret' = plot_domains(plot_args'.domain_data, plot_args'.selected_proteins,
                                     plot_args'.selected_domains, plot_args'.shape_choice,
                                     plot_args'.domain_colors)
         /\ output' = IF plot_ret' = KeyError
                      THEN [kind |-> "exception"]
                      ELSE [kind |-> plot_ret'.kind]
    ELSE /\ plot_args' = Pending
         /\ plot_ret' = Pending
         /\ output' = [kind |-> "none"]

\* One run of the script, top to bottom: file is the uploader's value, wp, wd
\* and ws the values the three selection widgets hold, pick the color picked
\* (if any), clicked whether the button triggered the run.
RunScript(file, wp, wd, ws, pick, clicked) ==
    /\ uploaded_file' = file
    /\ selected_proteins' =
          MultiselectValue(ProteinOptions(file), ProteinOptions(uploaded_file), wp)
    /\ selected_domains' =
          IF selected_proteins' = <<>> THEN <<>>
          ELSE MultiselectValue(DomainOptions(file), DomainOptions(uploaded_file), wd)
    /\ shape_choice' = IF selected_domains' = <<>> THEN "Rectangle" ELSE ws
    /\ IF selected_domains' = <<>>
       THEN /\ UNCHANGED domain_colors
            /\ plot_args' = Pending
            /\ plot_ret' = Pending
            /\ output' = IF file # 0 /\ ~Readable(file)
                         THEN [kind |-> "exception"]
                         ELSE [kind |-> "none"]
       ELSE /\ \E rnd \in [Uncolored(domain_colors, selected_domains') -> 0..(NumColors - 1)] :
                  domain_colors' = SessionColors(domain_colors, selected_domains', rnd, pick)
            /\ Visualize(clicked)
    /\ UNCHANGED parseVars

Remove(seq, i) == SubSeq(seq, 1, i - 1) \o SubSeq(seq, i + 1, Len(seq))

Init == IdleApp /\ IdlePlot /\ IdleParse

\* st.file_uploader: a file is chosen
Upload ==
    /\ \E f \in 1..Len(AppFiles) :
          /\ f # uploaded_file
          /\ RunScript(f, selected_proteins, selected_domains, shape_choice, NoPick, FALSE)
    /\ last_event' = "upload"

\* st.file_uploader: the file is removed
RemoveFile ==
    /\ uploaded_file # 0
    /\ RunScript(0, selected_proteins, selected_domains, shape_choice, NoPick, FALSE)
    /\ last_event' = "remove_file"

\* st.multiselect("Select Protein(s):"): one more protein
SelectProtein ==
    /\ \E p \in ProteinOptions(uploaded_file) \ Range(selected_proteins) :
          RunScript(uploaded_file, Append(selected_proteins, p), selected_domains,
                    shape_choice, NoPick, FALSE)
    /\ last_event' = "select_protein"

\* st.multiselect("Select Protein(s):"): one protein less
DeselectProtein ==
    /\ \E i \in 1..Len(selected_proteins) :
          RunScript(uploaded_file, Remove(selected_proteins, i), selected_domains,
                    shape_choice, NoPick, FALSE)
    /\ last_event' = "deselect_protein"

\* st.multiselect("Select Domain(s):"): one more domain
SelectDomain ==
    /\ selected_proteins # <<>>
    /\ \E d \in DomainOptions(uploaded_file) \ Range(selected_domains) :
          RunScript(uploaded_file, selected_proteins, Append(selected_domains, d),
                    shape_choice, NoPick, FALSE)
    /\ last_event' = "select_domain"

\* st.multiselect("Select Domain(s):"): one domain less
DeselectDomain ==
    /\ \E i \in 1..Len(selected_domains) :
          RunScript(uploaded_file, selected_proteins, Remove(selected_domains, i),
                    shape_choice, NoPick, FALSE)
    /\ last_event' = "deselect_domain"

\* st.selectbox("Select Domain Shape:")
SelectShape ==
    /\ selected_domains # <<>>
    /\ \E shape \in ShapeChoices \ {shape_choice} :
          RunScript(uploaded_file, selected_proteins, selected_domains, shape, NoPick, FALSE)
    /\ last_event' = "select_shape"

\* st.color_picker(f"Pick a color for {domain}", ...)
PickColor ==
    /\ \E d \in Range(selected_domains), c \in PickerColors :
          RunScript(uploaded_file, selected_proteins, selected_domains, shape_choice,
                    [picked |-> TRUE, domain |-> d, color |-> c], FALSE)
    /\ last_event' = "pick_color"

\* st.button("Visualize Selected Proteins")
ClickButton ==
    /\ selected_domains # <<>>
    /\ RunScript(uploaded_file, selected_proteins, selected_domains, shape_choice,
                 NoPick, TRUE)
    /\ last_event' = "click"

Next ==
    \/ Upload
    \/ RemoveFile
    \/ SelectProtein
    \/ DeselectProtein
    \/ SelectDomain
    \/ DeselectDomain
    \/ SelectShape
    \/ PickColor
    \/ ClickButton

Spec == Init /\ [][Next]_vars

-----------------------------------------------------------------------------
(* Properties of the script *)

\* C2: when a rerun finds the selected domains grown from S to a superset,
\* every domain that had a color (those of S among them) keeps it, and the
\* only new entries are those of the selected domains that had none.
C2_ColorsKeptWhenSelectionGrows ==
    [][(/\ Range(selected_domains) \subseteq Range(selected_domains')
        /\ Range(selected_domains) # Range(selected_domains'))
       => /\ \A d \in Range(selected_domains) : d \in DOMAIN domain_colors.map
          /\ \A d \in DOMAIN domain_colors.map :
                /\ d \in DOMAIN domain_colors'.map
                /\ domain_colors'.map[d] = domain_colors.map[d]
          /\ DOMAIN domain_colors'.map
                = (DOMAIN domain_colors.map) \cup Range(selected_domains')]_vars

\* C2 witness: the selection has just grown to three domains, the first two
\* with different colors.
C2_Witness ==
    /\ last_event = "select_domain"
    /\ Len(selected_domains) = 3
    /\ domain_colors.map[selected_domains[1]] # domain_colors.map[selected_domains[2]]

\* C3: whenever plot_domains is called, it is called with the current
\* selection and session colors, and these hold an entry for every selected
\* domain, so for the domain of every record that passes the filter.
C3_ColorForEverySelectedDomain ==
    plot_args # Pending =>
        /\ plot_args.selected_domains = selected_domains
        /\ plot_args.domain_colors = domain_colors.map
        /\ \A d \in Range(selected_domains) : d \in DOMAIN plot_args.domain_colors
        /\ \A i \in Matching(plot_args) :
              plot_args.domain_data[i][4] \in DOMAIN plot_args.domain_colors

\* C3 witness: a figure drawn for a selection of three domains, of which two
\* were selected after the colors had first been stored.
C3_Witness ==
    /\ plot_args # Pending
    /\ Drew(plot_ret)
    /\ Len(selected_domains) = 3
    /\ Len(plot_ret.patches) >= 2

====
